---- MODULE Spec2Model ----
(***************************************************************************)
(* Batch classification orchestrator of the salary-agent service:          *)
(* TechpackJobClasifierAgent.classify_job_batch (schemas/techpack.py) and  *)
(* AgentProcessor.process_batch (src/agent/agent.py) that wraps it.        *)
(*                                                                         *)
(* The orchestrator cuts the input list into batches of batch_size, runs   *)
(* up to parallel_batches oracle calls (batch_agent.run) at a time with    *)
(* asyncio.gather(..., return_exceptions=True), and extends all_results    *)
(* with the payload of every result of the wave, in task order.            *)
(*                                                                         *)
(* Further components, each with a specification of its own over the same  *)
(* variables: batch_create of the two job repositories on a SQLAlchemy     *)
(* session (StoreSpec), two runs of an ingestion pipeline                  *)
(* get_all_data_and_save on a shared store (PipeSpec), the page loop of    *)
(* the Lambda list walker (WalkSpec, FairWalkSpec), the page fetch of      *)
(* get_jobs_using_api (ApiSpec), one get_job_detail_from_request call      *)
(* with its retries (DetailSpec), the Lambda run around its thread pool    *)
(* (PoolSpec), and a repository used again after batch_create raised       *)
(* (RecallSpec).                                                           *)
(***************************************************************************)
EXTENDS Integers, Sequences, FiniteSets, TLC

\* ------------------------------------------------------------------ bounds
MaxRecords == 11
MaxBatchSize == 2
MaxFaults == 1

\* ------------------------------------------------------- program constants
\* techpack.py:205  parallel_batches = 10
parallel_batches == 10

VARIABLES
    input_data,   \* the list handed to classify_job_batch
    batch_size,   \* its batch_size argument
    pc,           \* "loop": head of `for chunk_start`; "gather": awaiting; "done"
    chunk_start,  \* loop variable of line 208
    tasks,        \* the batches whose coroutines are in `tasks` (line 210-219)
    all_results,  \* line 201
    calls,        \* log of batch_agent.run invocations, in order of issue; each
                  \* entry keeps the batch whose str() was submitted and its wave
    reply,        \* per logged call: pending, hung, or the result it produced
    ret,          \* what process_batch hands back to its caller
    \* ---- durable store and ingestion pipelines
    repo,         \* which repository/pipeline is exercised: "zangia" or "lambda"
    rows,         \* committed rows of the jobs table: their ids, in commit order
    session,      \* per SQLAlchemy session: objects added (new) and flushed (tx)
    bc,           \* per session: the frame of its batch_create call
    run,          \* per ingestion run: the frame of get_all_data_and_save
    fetched,      \* identifiers of the listing the source returns (0: no id)
    later,        \* the call made through the repository after a batch_create raised
    \* ---- Lambda list walker
    walk,         \* frame of the `while True` page loop and the source it reads
    \* ---- fetching
    api,          \* frame of get_jobs_using_api (Zangia) and the source it reads
    pool,         \* frame of the Lambda run around its ThreadPoolExecutor
    detail        \* frame of one get_job_detail_from_request call

orchVars == <<input_data, batch_size, pc, chunk_start, tasks, all_results, calls, reply, ret>>

storeVars == <<repo, rows, session, bc, run, fetched, later>>

fetchVars == <<api, pool, detail>>

vars == <<orchVars, storeVars, walk, fetchVars>>

Min(a, b) == IF a < b THEN a ELSE b

\* ------------------------------------------------------------ data shapes
\* A raw job dict as built in zangia.py main(): it carries the source's id.
RawRecord(n) == [id |-> n, title |-> n]

\* JobClasifyOutput: name, company, ... ; the schema has no identifier field.
JobClasifyOutput(raw) == [name |-> raw.title]

\* The identifiers a classified record carries: none, as the schema has no id.
Identifiers(out) == IF "id" \in DOMAIN out THEN {out.id} ELSE {}

\* A well-formed oracle answer: one JobClasifyOutput per submitted job, in order,
\* exposed as the `data` attribute that line 231 reads.
OracleClassify(batch) == [j \in 1..Len(batch) |-> JobClasifyOutput(batch[j])]

Pending == [kind |-> "pending", data |-> <<>>]
Hung    == [kind |-> "hung", data |-> <<>>]
\* gather(return_exceptions=True) yields the exception object as the result
Raised  == [kind |-> "exc", data |-> <<>>]
\* a result that is None or has no `data` attribute
NoData  == [kind |-> "nodata", data |-> <<>>]
\* a result whose `data` is not iterable (list.extend raises TypeError)
BadData == [kind |-> "baddata", data |-> <<>>]
Ok(batch) == [kind |-> "ok", data |-> OracleClassify(batch)]

FaultKinds == {"exc", "nodata", "baddata", "hung"}

\* ------------------------------------------------------- partition (204-219)
total == Len(input_data)

\* line 206
ChunkSize(bs) == bs * parallel_batches

\* line 212
BatchStart(cs, i, bs) == cs + (i * bs)

\* Python slice data[lo:hi] (0-based, clipped to the list), line 216
SliceInclusive(data, lo, hi) == SubSeq(data, lo + 1, Min(hi + 1, Len(data)))

Slice(data, lo, hi) == SubSeq(data, lo + 1, Min(hi, Len(data)))

\* line 211: range(parallel_batches)
InnerRangeOffByOne == parallel_batches + 1

InnerRange == parallel_batches

\* lines 210-219: the inner for loop, from index i with `acc` tasks so far
RECURSIVE BuildTasks(_, _, _, _, _)
BuildTasks(data, cs, bs, i, acc) ==
    IF i >= InnerRange THEN acc
    ELSE IF BatchStart(cs, i, bs) >= Len(data) THEN acc
    ELSE LET batch == Slice(data, BatchStart(cs, i, bs), BatchStart(cs, i, bs) + bs)
         IN  BuildTasks(data, cs, bs, i + 1,
                        IF batch # <<>> THEN Append(acc, batch) ELSE acc)

\* ------------------------------------------------------ collection (225-233)
\* One result of the wave, lines 228-231: TRUE when extend() raises.
ExtendRaisesOnException(result) == result.kind \in {"baddata", "exc"}

ExtendRaises(result) == result.kind = "baddata"

Extended(acc, result) ==
    IF result.kind = "exc" THEN acc            \* 228-229: printed only
    ELSE IF result.kind = "nodata" THEN acc    \* 230: condition false
    ELSE acc \o result.data                    \* 231

\* The for loop inside try/except: an exception leaves the loop (232-233).
RECURSIVE CollectFrom(_, _, _)
CollectFrom(results, r, acc) ==
    IF r > Len(results) THEN acc
    ELSE IF ExtendRaises(results[r]) THEN acc
    ELSE CollectFrom(results, r + 1, Extended(acc, results[r]))

CollectResults(results, acc) == CollectFrom(results, 1, acc)

\* ----------------------------------------------------------- gather (224)
WaveFirst == Len(calls) - Len(tasks) + 1
WaveCalls == WaveFirst..Len(calls)

\* results of gather: the replies of this wave's calls, in task order
GatherResults == [t \in 1..Len(tasks) |-> reply[WaveFirst + t - 1]]

Completed(c) == reply[c].kind \notin {"pending", "hung"}

\* gather returns once every awaitable of the wave has a result
GatherFirstCompleted(cs) == \E c \in cs : Completed(c)

GatherDone(cs) == \A c \in cs : Completed(c)

InFlight == {c \in 1..Len(calls) : ~Completed(c)}

NumFaults == Cardinality({c \in 1..Len(calls) : reply[c].kind \in FaultKinds})

\* line 208: the next value of range(0, total, chunk_size)
NextChunkStartRetry(cs, bs, results) ==
    IF \E r \in 1..Len(results) : results[r].kind = "exc" THEN cs ELSE cs + ChunkSize(bs)

NextChunkStart(cs, bs, results) == cs + ChunkSize(bs)

\* line 235 and agent.py 34-36: the value handed to the caller
ReturnValueWithCount(results) == <<results, NumFaults>>

ReturnValue(results) == <<results>>

ProcessBatch(result) == result

\* ------------------------------------------------------------------ actions
\* the store, the pipelines and the walker are not part of a classify_job_batch run
StoreIdle ==
    /\ repo = "none"
    /\ rows = <<>>
    /\ session = <<>>
    /\ bc = <<>>
    /\ run = <<>>
    /\ fetched = <<>>
    /\ later = <<>>

WalkIdle == walk = <<>>

FetchIdle ==
    /\ api = <<>>
    /\ pool = <<>>
    /\ detail = <<>>

Init ==
    /\ \E k \in 0..MaxRecords : input_data = [n \in 1..k |-> RawRecord(n)]
    /\ batch_size \in 1..MaxBatchSize
    /\ pc = "loop"
    /\ chunk_start = 0
    /\ tasks = <<>>
    /\ all_results = <<>>
    /\ calls = <<>>
    /\ reply = <<>>
    /\ ret = <<>>
    /\ StoreIdle
    /\ WalkIdle
    /\ FetchIdle

\* lines 208-224: one iteration up to the await; every task of the wave starts
StartWave ==
    /\ pc = "loop"
    /\ chunk_start < total
    /\ LET ts == BuildTasks(input_data, chunk_start, batch_size, 0, <<>>)
           w  == (chunk_start \div ChunkSize(batch_size)) + 1
       IN  /\ tasks' = ts
           /\ calls' = calls \o [t \in 1..Len(ts) |-> [batch |-> ts[t], wave |-> w]]
           /\ reply' = reply \o [t \in 1..Len(ts) |-> Pending]
    /\ pc' = "gather"
    /\ UNCHANGED <<input_data, batch_size, chunk_start, all_results, ret>>
    /\ UNCHANGED <<storeVars, walk, fetchVars>>

\* the oracle answers call c with a well-formed list
OracleOk(c) ==
    /\ reply[c] = Pending
    /\ reply' = [reply EXCEPT ![c] = Ok(calls[c].batch)]
    /\ UNCHANGED <<input_data, batch_size, pc, chunk_start, tasks, all_results, calls, ret>>
    /\ UNCHANGED <<storeVars, walk, fetchVars>>

\* the oracle call raises, or answers with a malformed result
OracleFail(c) ==
    /\ reply[c] = Pending
    /\ NumFaults < MaxFaults
    /\ \E r \in {Raised, NoData, BadData} : reply' = [reply EXCEPT ![c] = r]
    /\ UNCHANGED <<input_data, batch_size, pc, chunk_start, tasks, all_results, calls, ret>>
    /\ UNCHANGED <<storeVars, walk, fetchVars>>

\* the oracle never answers call c; line 219 passes no timeout
OracleHang(c) ==
    /\ reply[c] = Pending
    /\ NumFaults < MaxFaults
    /\ reply' = [reply EXCEPT ![c] = Hung]
    /\ UNCHANGED <<input_data, batch_size, pc, chunk_start, tasks, all_results, calls, ret>>
    /\ UNCHANGED <<storeVars, walk, fetchVars>>

\* lines 224-233 and the step of the for loop
Collect ==
    /\ pc = "gather"
    /\ GatherDone(WaveCalls)
    /\ all_results' = CollectResults(GatherResults, all_results)
    /\ chunk_start' = NextChunkStart(chunk_start, batch_size, GatherResults)
    /\ tasks' = <<>>
    /\ pc' = "loop"
    /\ UNCHANGED <<input_data, batch_size, calls, reply, ret>>
    /\ UNCHANGED <<storeVars, walk, fetchVars>>

\* lines 234-235, agent.py 34-36
Return ==
    /\ pc = "loop"
    /\ chunk_start >= total
    /\ ret' = ProcessBatch(ReturnValue(all_results))
    /\ pc' = "done"
    /\ UNCHANGED <<input_data, batch_size, chunk_start, tasks, all_results, calls, reply>>
    /\ UNCHANGED <<storeVars, walk, fetchVars>>

Next ==
    \/ StartWave
    \/ \E c \in 1..Len(calls) : OracleOk(c)
    \/ \E c \in 1..Len(calls) : OracleFail(c)
    \/ \E c \in 1..Len(calls) : OracleHang(c)
    \/ Collect
    \/ Return

Spec == Init /\ [][Next]_vars

\* The event loop runs every ready coroutine; an oracle that has not hung answers.
FairSpec ==
    /\ Init /\ [][Next]_vars
    /\ WF_vars(StartWave)
    /\ WF_vars(Collect)
    /\ WF_vars(Return)
    /\ WF_vars(\E c \in 1..Len(calls) : OracleOk(c))


\* =========================================================================
\* Durable store client: ZangiaJobRepository / LambdaJobRepository.batch_create
\* (src/repositories/database.py) on a SQLAlchemy session, and the two
\* ingestion pipelines get_all_data_and_save that call it.
\* An identifier is a positive number; 0 stands for a missing one (None, "").
\* =========================================================================

\* ------------------------------------------------------------------ bounds
MaxId == 2
MaxObjs == 3
MaxChunk == 2

\* database.py:50 and 105: chunk_size: int = 100, the value both pipelines use
DefaultChunkSize == 100

Sessions == {1, 2}

RepoKinds == {"zangia", "lambda"}

SeqToSet(q) == {q[x] : x \in DOMAIN q}

HasDuplicate(q) == \E a, b \in DOMAIN q : a < b /\ q[a] = q[b]

\* all lists of at most n identifiers, a missing identifier (0) included
IdLists(n) == UNION {[1..m -> 0..MaxId] : m \in 0..n}

\* a table holding the rows S, as the store may hold before a call
TableOf(S) ==
    CHOOSE q \in [1..Cardinality(S) -> S] : \A a, b \in DOMAIN q : a < b => q[a] < q[b]

\* ------------------------------------------------------- session and table
EmptySession == [new |-> <<>>, tx |-> <<>>]

\* id = Column(..., primary_key=True): an INSERT of a key the table holds, or
\* of the same key twice, fails (IntegrityError)
NoPrimaryKey(committed, inserted) == FALSE

PrimaryKeyViolation(committed, inserted) ==
    \/ HasDuplicate(inserted)
    \/ \E x \in DOMAIN inserted : inserted[x] \in SeqToSet(committed)

\* Session autoflush before a query: the pending objects are INSERTed in the
\* open transaction; a failed flush rolls the transaction back
Autoflush(sess, committed) ==
    IF PrimaryKeyViolation(committed \o sess.tx, sess.new)
    THEN [ok |-> FALSE, sess |-> EmptySession]
    ELSE [ok |-> TRUE, sess |-> [new |-> <<>>, tx |-> sess.tx \o sess.new]]

\* database.py 119: query(...).filter(id == data["id"]).first() is not None
Exists(sess, committed, id) == id \in (SeqToSet(committed) \cup SeqToSet(sess.tx))

\* database.py 93-94 / zangia.py 126-128: the identifiers the session reads
ExistingIds(sess, committed) == SeqToSet(committed) \cup SeqToSet(sess.tx)

\* ------------------------------------------------------ batch_create frame
IdleFrame ==
    [pc |-> "idle", objs_in |-> <<>>, chunk_size |-> 1, i |-> 0, k |-> 0,
     db_objs |-> <<>>, all_db_objs |-> <<>>, skipped |-> 0, error |-> "none",
     commit_log |-> <<>>]

\* database.py 52-54 / 107-110: range(0, len(objs_in), chunk_size) may be empty
BatchCreateCall(objs, cs) ==
    [IdleFrame EXCEPT !.pc = IF Len(objs) = 0 THEN "returned" ELSE "chunk",
                      !.objs_in = objs, !.chunk_size = cs]

\* database.py 55 / 111
Chunk(f) == Slice(f.objs_in, f.i, f.i + f.chunk_size)

\* database.py 59 / 115: `not data.get("id")`
Falsy(id) == id = 0

Raise(f, err) == [f EXCEPT !.pc = "raised", !.error = err]

\* the inner for loop moves to the next object, or ends and commit follows
AfterRecordCommitEach(f) == [f EXCEPT !.k = f.k + 1, !.pc = "commit"]

AfterRecord(f) ==
    IF f.k + 1 >= Len(Chunk(f)) THEN [f EXCEPT !.k = f.k + 1, !.pc = "commit"]
    ELSE [f EXCEPT !.k = f.k + 1]

\* database.py 61-63 / 124-126
AddedNotReturned(f, sess, obj) ==
    [frame |-> AfterRecord(f), sess |-> [sess EXCEPT !.new = Append(sess.new, obj)]]

Added(f, sess, obj) ==
    [frame |-> AfterRecord([f EXCEPT !.db_objs = Append(f.db_objs, obj)]),
     sess  |-> [sess EXCEPT !.new = Append(sess.new, obj)]]

\* ZangiaJobRepository.batch_create, one object of the chunk (57-63)
ZangiaRecordStep(f, sess, committed) ==
    LET obj == Chunk(f)[f.k + 1]
    IN  IF Falsy(obj) THEN [frame |-> Raise(f, "ValueError"), sess |-> sess]
        ELSE Added(f, sess, obj)

\* LambdaJobRepository.batch_create, one object of the chunk (113-126)
LambdaRecordStep(f, sess, committed) ==
    LET obj == Chunk(f)[f.k + 1]
        fl  == Autoflush(sess, committed)
    IN  IF Falsy(obj) THEN [frame |-> Raise(f, "ValueError"), sess |-> sess]
        ELSE IF ~fl.ok THEN [frame |-> Raise(f, "IntegrityError"), sess |-> fl.sess]
        ELSE IF Exists(fl.sess, committed, obj)
             THEN [frame |-> AfterRecord([f EXCEPT !.skipped = f.skipped + 1]),
                   sess  |-> fl.sess]
        ELSE Added(f, fl.sess, obj)

RecordStep(kind, f, sess, committed) ==
    IF kind = "lambda" THEN LambdaRecordStep(f, sess, committed)
    ELSE ZangiaRecordStep(f, sess, committed)

\* database.py 54 / 110: the next chunk, or the return of line 68 / 131
NextChunk(f) ==
    LET ni == f.i + f.chunk_size
    IN  [f EXCEPT !.i = ni, !.k = 0, !.db_objs = <<>>,
                  !.pc = IF ni >= Len(f.objs_in) THEN "returned" ELSE "chunk"]

\* database.py 64-65 / 127-128: db_session.commit() of one chunk; `lost` is a
\* transient failure of the connection during the commit
CommitStep(f, sess, committed, lost) ==
    LET ins == sess.tx \o sess.new
    IN  IF lost
        THEN [frame |-> Raise(f, "OperationalError"), sess |-> EmptySession,
              rows |-> committed]
        ELSE IF PrimaryKeyViolation(committed, ins)
        THEN [frame |-> Raise(f, "IntegrityError"), sess |-> EmptySession,
              rows |-> committed]
        ELSE [frame |-> NextChunk([f EXCEPT
                            !.all_db_objs = f.all_db_objs \o f.db_objs,
                            !.commit_log = Append(f.commit_log,
                                [chunk |-> (f.i \div f.chunk_size) + 1,
                                 size |-> Len(Chunk(f)), ids |-> ins])]),
              sess |-> EmptySession,
              rows |-> committed \o ins]

\* ------------------------------------------------------ batch_create steps
BCRecord(s) ==
    /\ bc[s].pc = "chunk"
    /\ LET st == RecordStep(repo, bc[s], session[s], rows)
       IN  /\ bc' = [bc EXCEPT ![s] = st.frame]
           /\ session' = [session EXCEPT ![s] = st.sess]
    /\ UNCHANGED <<repo, rows, run, fetched, later, orchVars, walk, fetchVars>>

BCCommit(s) ==
    /\ bc[s].pc = "commit"
    /\ \E lost \in BOOLEAN :
         LET st == CommitStep(bc[s], session[s], rows, lost)
         IN  /\ bc' = [bc EXCEPT ![s] = st.frame]
             /\ session' = [session EXCEPT ![s] = st.sess]
             /\ rows' = st.rows
    /\ UNCHANGED <<repo, run, fetched, later, orchVars, walk, fetchVars>>

\* a caller hands a list to batch_create of the repository
StoreCall(s) ==
    /\ bc[s].pc = "idle"
    /\ \E objs \in IdLists(MaxObjs), cs \in 1..MaxChunk :
         bc' = [bc EXCEPT ![s] = BatchCreateCall(objs, cs)]
    /\ UNCHANGED <<repo, rows, session, run, fetched, later, orchVars, walk, fetchVars>>

OrchIdle ==
    /\ input_data = <<>>
    /\ batch_size = 1
    /\ pc = "idle"
    /\ chunk_start = 0
    /\ tasks = <<>>
    /\ all_results = <<>>
    /\ calls = <<>>
    /\ reply = <<>>
    /\ ret = <<>>

\* frame of one get_all_data_and_save run; pc "saving" while its batch_create
\* call is in progress or has ended, "returned" when it ended without one
IdleRun ==
    [pc |-> "idle", all_jobs |-> <<>>, existing |-> {}, selected |-> <<>>,
     to_create |-> <<>>, fetch_failed |-> 0, in_sequence |-> FALSE,
     rows_at_start |-> 0]

StoreInit ==
    /\ repo \in RepoKinds
    /\ \E S \in SUBSET (1..MaxId) : rows = TableOf(S)
    /\ session = [s \in Sessions |-> EmptySession]
    /\ bc = [s \in Sessions |-> IdleFrame]
    /\ run = [r \in Sessions |-> IdleRun]
    /\ fetched = <<>>
    /\ later = <<>>
    /\ OrchIdle
    /\ WalkIdle
    /\ FetchIdle

StoreNext ==
    \/ StoreCall(1)
    \/ BCRecord(1)
    \/ BCCommit(1)

\* one caller, one session: batch_create called on a store that holds some rows
StoreSpec == StoreInit /\ [][StoreNext]_vars

\* =========================================================================
\* Ingestion pipelines: get_all_data_and_save of service/zangia.py and of
\* service/lambda_global.py, each run on its own session of the shared store.
\* A Zangia listing entry is its `code` (0: no code); a Lambda listing entry is
\* its `job_id`, the string of digits cut from the slug (<<>>: None).
\* =========================================================================
MaxListing == 3

\* lambda_global.py 31-35: job_id is None or the digits that end the slug
JobIdStrings == {<<>>, <<0, 1>>} \cup {<<d>> : d \in 0..MaxId}

\* all lists of at most n entries drawn from S
ListsOver(S, n) == UNION {[1..m -> S] : m \in 0..n}

Listings(kind) ==
    IF kind = "lambda" THEN ListsOver(JobIdStrings, MaxListing)
    ELSE ListsOver(0..MaxId, MaxListing)

\* lambda_global.py 103: int(job["job_id"]) of a string of decimal digits
RECURSIVE int(_)
int(s) == IF Len(s) = 0 THEN 0 ELSE int(SubSeq(s, 1, Len(s) - 1)) * 10 + s[Len(s)]

\* lambda_global.py 103: truth value of job["job_id"] (None is false, a
\* non-empty string is true)
Truthy(job_id) == Len(job_id) > 0

\* lambda_global.py 111, 133: the detail served for a listed job carries the
\* number that ends its slug as `id`
DetailId(job_id) == int(job_id)

\* zangia.py 130: [job for job in all_jobs if job.get("code") not in existing]
RECURSIVE NoneExistingJobs(_, _)
NoneExistingJobs(all_jobs, existing) ==
    IF all_jobs = <<>> THEN <<>>
    ELSE (IF Head(all_jobs) \notin existing THEN <<Head(all_jobs)>> ELSE <<>>)
             \o NoneExistingJobs(Tail(all_jobs), existing)

\* lambda_global.py 101-104: [job for job in result_jobs
\*                            if job["job_id"] and int(job["job_id"]) not in existing]
ToFetchIgnoringStore(job_id, existing) == Truthy(job_id)

ToFetch(job_id, existing) == Truthy(job_id) /\ int(job_id) \notin existing

RECURSIVE JobsToFetch(_, _)
JobsToFetch(result_jobs, existing) ==
    IF result_jobs = <<>> THEN <<>>
    ELSE (IF ToFetch(Head(result_jobs), existing)
          THEN <<Head(result_jobs)>> ELSE <<>>)
             \o JobsToFetch(Tail(result_jobs), existing)

\* zangia.py 134-144: the seen_codes loop
RECURSIVE DedupLoop(_, _, _)
DedupLoop(jobs, seen_codes, jobs_to_create) ==
    IF jobs = <<>> THEN jobs_to_create
    ELSE IF Head(jobs) \notin seen_codes
         THEN DedupLoop(Tail(jobs), seen_codes \cup {Head(jobs)},
                        Append(jobs_to_create, Head(jobs)))
         ELSE DedupLoop(Tail(jobs), seen_codes, jobs_to_create)

JobsToCreateNoDedup(none_existing_jobs) == none_existing_jobs

JobsToCreate(none_existing_jobs) == DedupLoop(none_existing_jobs, {}, <<>>)

\* lambda_global.py 116-121, 129-164: one detail per url, in order; a failed
\* fetch yields {} and adds nothing to new_jobs
RECURSIVE NewJobs(_, _, _)
NewJobs(jobs_to_fetch, failed, idx) ==
    IF idx > Len(jobs_to_fetch) THEN <<>>
    ELSE (IF idx \in failed THEN <<>> ELSE <<DetailId(jobs_to_fetch[idx])>>)
             \o NewJobs(jobs_to_fetch, failed, idx + 1)

\* zangia.py 115-152 up to the call of batch_create; `down`: the listing
\* request failed and get_jobs_using_api returned None
ZangiaPipeline(listing, down, sess, committed) ==
    LET all_jobs == IF down THEN <<>> ELSE listing
        existing == ExistingIds(sess, committed)
        none_existing_jobs == NoneExistingJobs(all_jobs, existing)
        jobs_to_create == JobsToCreate(none_existing_jobs)
        early == all_jobs = <<>>
        called == ~early /\ jobs_to_create # <<>>
    IN  [run |-> [IdleRun EXCEPT
                    !.pc = IF called THEN "saving" ELSE "returned",
                    !.all_jobs = all_jobs,
                    !.existing = IF early THEN {} ELSE existing,
                    !.selected = IF early THEN <<>> ELSE none_existing_jobs,
                    !.to_create = IF early THEN <<>> ELSE jobs_to_create,
                    !.fetch_failed = IF down THEN 1 ELSE 0],
         frame |-> IF called THEN BatchCreateCall(jobs_to_create, DefaultChunkSize)
                   ELSE IdleFrame]

\* lambda_global.py 96-167 up to the call of batch_create; `failed`: positions
\* of jobs_to_fetch whose detail fetch returned {}
LambdaPipeline(listing, failed, sess, committed) ==
    LET existing == ExistingIds(sess, committed)
        jobs_to_fetch == JobsToFetch(listing, existing)
        transformed_jobs == NewJobs(jobs_to_fetch, failed, 1)
    IN  [run |-> [IdleRun EXCEPT
                    !.pc = "saving",
                    !.all_jobs = listing,
                    !.existing = existing,
                    !.selected = jobs_to_fetch,
                    !.to_create = transformed_jobs,
                    !.fetch_failed = Cardinality(failed \cap DOMAIN jobs_to_fetch)],
         frame |-> BatchCreateCall(transformed_jobs, DefaultChunkSize)]

\* a run has ended: it returned, or its batch_create returned or raised
RunEnded(r) ==
    \/ run[r].pc = "returned"
    \/ run[r].pc = "saving" /\ bc[r].pc \in {"returned", "raised"}

Started(r, st) ==
    /\ run' = [run EXCEPT ![r] = [st.run EXCEPT
                                    !.in_sequence = (r = 2 /\ RunEnded(1)),
                                    !.rows_at_start = Len(rows)]]
    /\ bc' = [bc EXCEPT ![r] = st.frame]
    /\ UNCHANGED <<repo, rows, session, fetched, later, orchVars, walk, fetchVars>>

\* run r of get_all_data_and_save, from its start to its call of batch_create
Prepare(r) ==
    /\ run[r].pc = "idle"
    /\ r = 2 => run[1].pc # "idle"
    /\ \/ /\ repo = "zangia"
          /\ \E down \in BOOLEAN :
                Started(r, ZangiaPipeline(fetched, down, session[r], rows))
       \/ /\ repo = "lambda"
          /\ \E failed \in {{}} \cup {{x} : x \in DOMAIN JobsToFetch(fetched, ExistingIds(session[r], rows))} :
                Started(r, LambdaPipeline(fetched, failed, session[r], rows))

PipeInit ==
    /\ repo \in RepoKinds
    /\ fetched \in Listings(repo)
    /\ later = <<>>
    /\ \E S \in SUBSET (1..MaxId) : rows = TableOf(S)
    /\ session = [s \in Sessions |-> EmptySession]
    /\ bc = [s \in Sessions |-> IdleFrame]
    /\ run = [r \in Sessions |-> IdleRun]
    /\ OrchIdle
    /\ WalkIdle
    /\ FetchIdle

PipeNext ==
    \E r \in Sessions :
        \/ Prepare(r)
        \/ BCRecord(r)
        \/ BCCommit(r)

\* two runs of one pipeline against an unchanged source and a shared store,
\* one after the other or interleaved
PipeSpec == PipeInit /\ [][PipeNext]_vars

\* =========================================================================
\* Lambda list walker: the `while True` page loop of get_all_data_and_save
\* (service/lambda_global.py 82-95). The source is given by the number of job
\* links each of its pages shows; entry j of page p is <<p, j>>.
\* =========================================================================
MaxPages == 4
MaxPageSize == 2

Sources == [1..MaxPages -> 0..MaxPageSize]

\* lambda_global.py 86-88: jobs = await fetch_jobs_with_playwright(url + page)
FetchJobs(source, page) == [j \in 1..source[page] |-> <<page, j>>]

\* lambda_global.py 90: `if not jobs`
NoJobsNever(jobs) == FALSE

NoJobs(jobs) == jobs = <<>>

\* lambda_global.py 83-84
WalkStart(source) ==
    [pc |-> "fetching", page |-> 1, result_jobs |-> <<>>, requested |-> <<>>,
     source |-> source]

\* lambda_global.py 85-93: one iteration of the loop
WalkIteration(w) ==
    LET jobs == FetchJobs(w.source, w.page)
        asked == [w EXCEPT !.requested = Append(w.requested, w.page)]
    IN  IF NoJobs(jobs) THEN [asked EXCEPT !.pc = "exhausted"]
        ELSE [asked EXCEPT !.page = w.page + 1,
                           !.result_jobs = w.result_jobs \o jobs]

\* the loop has no bound of its own: the walk is followed over the first
\* MaxPages pages of the source
FetchPage ==
    /\ walk.pc = "fetching"
    /\ walk.page <= MaxPages
    /\ walk' = WalkIteration(walk)
    /\ UNCHANGED <<orchVars, storeVars, fetchVars>>

WalkInit ==
    /\ \E source \in Sources : walk = WalkStart(source)
    /\ OrchIdle
    /\ StoreIdle
    /\ FetchIdle

WalkNext == FetchPage

WalkSpec == WalkInit /\ [][WalkNext]_vars

\* the event loop runs the coroutine on: an iteration that can be taken is taken
FairWalkSpec == WalkSpec /\ WF_vars(FetchPage)

\* =========================================================================
\* Zangia paginated fetch: get_jobs_using_api (service/zangia.py 83-113) over
\* fetch_job_listings (37-56). The source is given by the number of items of
\* each of its pages (a page past the last has none) and by the totalPages
\* it reports in `meta`; item j of page p is <<p, j>>.
\* =========================================================================
MaxApiPages == 3

\* the pages with items come first
ApiSources ==
    {source \in [1..MaxApiPages -> 0..MaxPageSize] :
        \A p \in 1..(MaxApiPages - 1) : source[p] = 0 => source[p + 1] = 0}

\* zangia.py 98: jobs_page.get("items", [])
ApiItems(source, page) ==
    IF page \in DOMAIN source THEN [j \in 1..source[page] |-> <<page, j>>] ELSE <<>>

\* zangia.py 58-80: one dict per item, keyed by the item's code
extract_data_from_list(items) == [x \in DOMAIN items |-> [code |-> items[x]]]

\* zangia.py 89-94
ApiStart(source, hint) ==
    [pc |-> "probe", page |-> 0, total_pages |-> 0, all_extracted_data |-> <<>>,
     requested |-> <<>>, ret |-> "pending", source |-> source, hint |-> hint]

\* zangia.py 113
ApiReturn(f) == [f EXCEPT !.pc = "returned", !.ret = "list"]

\* zangia.py 105: range(2, total_pages + 1)
SecondRange(f) ==
    IF 2 > f.total_pages THEN ApiReturn(f) ELSE [f EXCEPT !.pc = "second", !.page = 2]

\* zangia.py 95: range(1, total_pages + 1)
FirstRange(f) ==
    IF 1 > f.total_pages THEN SecondRange(f) ELSE [f EXCEPT !.pc = "first", !.page = 1]

\* the loop variable moves on, or the range is used up
NextOfRange(f) ==
    IF f.page + 1 <= f.total_pages THEN [f EXCEPT !.page = f.page + 1]
    ELSE IF f.pc = "first" THEN SecondRange(f)
    ELSE ApiReturn(f)

\* zangia.py 96-100 / 107-111: one request of a loop; `ok`: the answer was 200
ApiPageFetched(f, ok) ==
    LET asked == [f EXCEPT !.requested = Append(f.requested, [page |-> f.page, ok |-> ok])]
        items == ApiItems(f.source, f.page)
    IN  NextOfRange(IF ok
                    THEN [asked EXCEPT !.all_extracted_data =
                              f.all_extracted_data \o extract_data_from_list(items)]
                    ELSE asked)

\* zangia.py 89-93: the first request, read for meta.totalPages only
ApiProbed(f, ok) ==
    LET asked == [f EXCEPT !.requested = Append(f.requested, [page |-> 1, ok |-> ok])]
    IN  IF ~ok THEN [asked EXCEPT !.pc = "returned", !.ret = "None"]
        ELSE FirstRange([asked EXCEPT !.total_pages = f.hint])

ApiProbe ==
    /\ api.pc = "probe"
    /\ \E ok \in BOOLEAN : api' = ApiProbed(api, ok)
    /\ UNCHANGED <<orchVars, storeVars, walk, pool, detail>>

ApiFetchPage ==
    /\ api.pc \in {"first", "second"}
    /\ \E ok \in BOOLEAN : api' = ApiPageFetched(api, ok)
    /\ UNCHANGED <<orchVars, storeVars, walk, pool, detail>>

ApiInit ==
    /\ \E source \in ApiSources, hint \in 0..(MaxApiPages + 1) : api = ApiStart(source, hint)
    /\ pool = <<>>
    /\ detail = <<>>
    /\ OrchIdle
    /\ StoreIdle
    /\ WalkIdle

ApiNext == ApiProbe \/ ApiFetchPage

ApiSpec == ApiInit /\ [][ApiNext]_vars

\* =========================================================================
\* One detail fetch: get_job_detail_from_request (service/lambda_global.py
\* 63-79). The frame stops where the call blocks: in requests.get and in
\* time.sleep.
\* =========================================================================
MaxRetriesArg == 4

\* lambda_global.py 63: max_retries: int = 3
DefaultMaxRetries == 3

\* what requests.get and response.json() can do: a 200 answer with a JSON
\* body, a 200 answer whose body does not decode (json() raises), an answer
\* with another status, an exception of the request (network error, timeout)
Outcomes == {"ok200", "bad200", "http_error", "exception"}

Status200(outcome) == outcome \in {"ok200", "bad200"}

\* lambda_global.py 66-72: what leaves the try block through `except Exception`
Caught(outcome) == outcome \in {"exception", "bad200"}

\* lambda_global.py 73
MayRetryAlways(attempt, max_retries) == TRUE

MayRetry(attempt, max_retries) == attempt < max_retries - 1

\* lambda_global.py 75: time.sleep(2 ** attempt)
Backoff(attempt) == 2 ^ attempt

\* lambda_global.py 65: the first iteration of range(max_retries)
DetailStart(max_retries) ==
    [pc |-> "requesting", max_retries |-> max_retries, attempt |-> 0,
     requests |-> <<>>, sleeps |-> <<>>, ret |-> [kind |-> "pending", of |-> 0]]

DetailReturn(f, value) == [f EXCEPT !.pc = "returned", !.ret = value]

EmptyDict == [kind |-> "empty", of |-> 0]

\* lambda_global.py 67-78: the answer to the request of this attempt
DetailAnswered(f, outcome) ==
    LET got == [f EXCEPT !.requests = Append(f.requests, outcome)]
    IN  IF Caught(outcome)
        THEN IF MayRetry(f.attempt, f.max_retries)
             THEN [got EXCEPT !.pc = "sleeping",
                              !.sleeps = Append(f.sleeps,
                                  [after |-> Len(got.requests), seconds |-> Backoff(f.attempt)])]
             ELSE DetailReturn(got, EmptyDict)
        ELSE IF outcome = "ok200"
             THEN DetailReturn(got, [kind |-> "body", of |-> Len(got.requests)])
        ELSE DetailReturn(got, EmptyDict)

\* lambda_global.py 65, 79: after the sleep the loop goes on, or is used up
DetailWoken(f) ==
    IF f.attempt + 1 < f.max_retries
    THEN [f EXCEPT !.pc = "requesting", !.attempt = f.attempt + 1]
    ELSE DetailReturn(f, EmptyDict)

DetailResponse ==
    /\ detail.pc = "requesting"
    /\ \E outcome \in Outcomes : detail' = DetailAnswered(detail, outcome)
    /\ UNCHANGED <<orchVars, storeVars, walk, api, pool>>

DetailWake ==
    /\ detail.pc = "sleeping"
    /\ detail' = DetailWoken(detail)
    /\ UNCHANGED <<orchVars, storeVars, walk, api, pool>>

DetailInit ==
    /\ \E max_retries \in 1..MaxRetriesArg : detail = DetailStart(max_retries)
    /\ api = <<>>
    /\ pool = <<>>
    /\ OrchIdle
    /\ StoreIdle
    /\ WalkIdle

DetailNext == DetailResponse \/ DetailWake

DetailSpec == DetailInit /\ [][DetailNext]_vars

\* =========================================================================
\* The Lambda run around its thread pool: get_all_data_and_save of
\* service/lambda_global.py from the read of the existing ids (96) to the
\* call of batch_create (167). A task is one submitted
\* get_job_detail_from_request; its result is a detail ("body") or {}.
\* =========================================================================
MaxJobs == 6

\* lambda_global.py 115: ThreadPoolExecutor(max_workers=5)
max_workers == 5

\* the listing shows jobs 1..n, each once
PoolListing(n) == [x \in 1..n |-> <<x>>]

PoolStart ==
    [pc |-> "start", existing_job_ids |-> {}, jobs_to_fetch |-> <<>>, urls |-> <<>>,
     futures |-> <<>>, idx |-> 0, new_jobs |-> <<>>, transformed_jobs |-> <<>>,
     trace |-> <<>>, report |-> <<>>]

\* lambda_global.py 97-111
PoolFiltered(f, listing, sess, committed) ==
    LET existing == ExistingIds(sess, committed)
        jobs_to_fetch == JobsToFetch(listing, existing)
    IN  [f EXCEPT !.pc = "submit",
                  !.existing_job_ids = existing,
                  !.jobs_to_fetch = jobs_to_fetch,
                  !.urls = jobs_to_fetch,
                  !.trace = Append(f.trace, [event |-> "get_all_ids", job |-> <<>>])]

Running(f) == {t \in DOMAIN f.futures : f.futures[t].state = "running"}

Queued(f) == {t \in DOMAIN f.futures : f.futures[t].state = "queued"}

\* the executor starts a work item while fewer than max_workers threads are busy
WorkerFreeAlways(f) == TRUE

WorkerFree(f) == Cardinality(Running(f)) < max_workers

\* lambda_global.py 116: executor.submit(get_job_detail_from_request, url)
Submitted(f) ==
    LET url == f.urls[Len(f.futures) + 1]
        queued == [f EXCEPT !.futures = Append(f.futures, [url |-> url, state |-> "queued"])]
    IN  IF Len(queued.futures) = Len(f.urls) THEN [queued EXCEPT !.pc = "collect"]
        ELSE queued

\* a worker thread takes the oldest queued work item and calls the function
WorkStarted(f, t) ==
    [f EXCEPT !.futures[t].state = "running",
              !.trace = Append(f.trace, [event |-> "detail_fetch", job |-> f.futures[t].url])]

\* get_job_detail_from_request returned: a detail, or {}
WorkDone(f, t, result) == [f EXCEPT !.futures[t].state = result]

\* lambda_global.py 105, 125, 168: the numbers the run prints
ReportWithFailed(f) ==
    [jobs_to_fetch |-> Len(f.jobs_to_fetch), new_jobs |-> Len(f.new_jobs),
     saved |-> Len(f.transformed_jobs),
     failed |-> Len(f.jobs_to_fetch) - Len(f.new_jobs)]

Report(f) ==
    [jobs_to_fetch |-> Len(f.jobs_to_fetch), new_jobs |-> Len(f.new_jobs),
     saved |-> Len(f.transformed_jobs)]

\* lambda_global.py 118-121: job_detail = future.result() of the next future
Collected(f) ==
    LET done == f.futures[f.idx + 1]
    IN  [f EXCEPT !.idx = f.idx + 1,
                  !.new_jobs = IF done.state = "body"
                               THEN Append(f.new_jobs, DetailId(done.url))
                               ELSE f.new_jobs]

\* lambda_global.py 128-167: transformed_jobs, one per new job, handed to
\* batch_create
Transformed(f) ==
    LET g == [f EXCEPT !.pc = "saving", !.transformed_jobs = f.new_jobs]
    IN  [g EXCEPT !.report = Report(g)]

PoolRead ==
    /\ pool.pc = "start"
    /\ pool' = LET f == PoolFiltered(pool, fetched, session[1], rows)
               IN  IF f.urls = <<>> THEN [f EXCEPT !.pc = "collect"] ELSE f
    /\ UNCHANGED <<orchVars, storeVars, walk, api, detail>>

PoolSubmit ==
    /\ pool.pc = "submit"
    /\ pool' = Submitted(pool)
    /\ UNCHANGED <<orchVars, storeVars, walk, api, detail>>

WorkerStart ==
    /\ pool.pc \in {"submit", "collect"}
    /\ Queued(pool) # {}
    /\ WorkerFree(pool)
    /\ pool' = WorkStarted(pool, CHOOSE t \in Queued(pool) : \A o \in Queued(pool) : t <= o)
    /\ UNCHANGED <<orchVars, storeVars, walk, api, detail>>

WorkerFinish ==
    /\ \E t \in Running(pool), result \in {"body", "empty"} :
          pool' = WorkDone(pool, t, result)
    /\ UNCHANGED <<orchVars, storeVars, walk, api, detail>>

PoolCollect ==
    /\ pool.pc = "collect"
    /\ pool.idx < Len(pool.futures)
    /\ pool.futures[pool.idx + 1].state \in {"body", "empty"}
    /\ pool' = Collected(pool)
    /\ UNCHANGED <<orchVars, storeVars, walk, api, detail>>

PoolSave ==
    /\ pool.pc = "collect"
    /\ pool.idx = Len(pool.futures)
    /\ pool' = Transformed(pool)
    /\ bc' = [bc EXCEPT ![1] = BatchCreateCall(pool'.transformed_jobs, DefaultChunkSize)]
    /\ UNCHANGED <<orchVars, repo, rows, session, run, fetched, later, walk, api, detail>>

PoolInit ==
    /\ repo = "lambda"
    /\ \E n \in 0..MaxJobs : fetched = PoolListing(n)
    /\ later = <<>>
    /\ \E S \in SUBSET {1} : rows = TableOf(S)
    /\ session = [s \in Sessions |-> EmptySession]
    /\ bc = [s \in Sessions |-> IdleFrame]
    /\ run = [r \in Sessions |-> IdleRun]
    /\ pool = PoolStart
    /\ api = <<>>
    /\ detail = <<>>
    /\ OrchIdle
    /\ WalkIdle

PoolNext ==
    \/ PoolRead
    \/ PoolSubmit
    \/ WorkerStart
    \/ WorkerFinish
    \/ PoolCollect
    \/ PoolSave

PoolSpec == PoolInit /\ [][PoolNext]_vars

\* =========================================================================
\* The repository used again after its batch_create raised ValueError.
\* dependencies.py builds each repository around one Session(), so a later
\* create or batch_create works on the session the failed call left behind.
\* =========================================================================
MaxLater == 1

NoLater ==
    [pc |-> "none", objs |-> <<>>, left |-> <<>>, rows_before |-> <<>>, error |-> "none"]

\* the objects a session holds that no commit has written
PendingObjs(sess) == sess.tx \o sess.new

\* database.py 40-48 / 96-103: create(obj_in) adds one object and commits
CreateStepFreshSession(sess, committed, obj, lost) ==
    IF Falsy(obj) THEN [error |-> "ValueError", sess |-> sess, rows |-> committed]
    ELSE IF lost
    THEN [error |-> "OperationalError", sess |-> sess, rows |-> committed]
    ELSE IF PrimaryKeyViolation(committed, <<obj>>)
    THEN [error |-> "IntegrityError", sess |-> sess, rows |-> committed]
    ELSE [error |-> "none", sess |-> sess, rows |-> Append(committed, obj)]

CreateStep(sess, committed, obj, lost) ==
    IF Falsy(obj) THEN [error |-> "ValueError", sess |-> sess, rows |-> committed]
    ELSE IF lost
    THEN [error |-> "OperationalError", sess |-> EmptySession, rows |-> committed]
    ELSE IF PrimaryKeyViolation(committed, Append(PendingObjs(sess), obj))
    THEN [error |-> "IntegrityError", sess |-> EmptySession, rows |-> committed]
    ELSE [error |-> "none", sess |-> EmptySession,
          rows |-> committed \o Append(PendingObjs(sess), obj)]

\* the failed call has raised ValueError and nothing was called since
LeftBehind ==
    /\ bc[1].pc = "raised"
    /\ bc[1].error = "ValueError"
    /\ later.pc = "none"

LaterCreate ==
    /\ LeftBehind
    /\ \E obj \in 0..MaxId, lost \in BOOLEAN :
         LET st == CreateStep(session[1], rows, obj, lost)
         IN  /\ later' = [pc |-> "create", objs |-> <<obj>>,
                          left |-> PendingObjs(session[1]),
                          rows_before |-> rows, error |-> st.error]
             /\ session' = [session EXCEPT ![1] = st.sess]
             /\ rows' = st.rows
    /\ UNCHANGED <<repo, bc, run, fetched, orchVars, walk, fetchVars>>

LaterBatchCreate ==
    /\ LeftBehind
    /\ \E objs \in IdLists(MaxLater) :
         /\ bc' = [bc EXCEPT ![1] = BatchCreateCall(objs, DefaultChunkSize)]
         /\ later' = [pc |-> "batch_create", objs |-> objs,
                      left |-> PendingObjs(session[1]),
                      rows_before |-> rows, error |-> "none"]
    /\ UNCHANGED <<repo, rows, session, run, fetched, orchVars, walk, fetchVars>>

RecallInit ==
    /\ repo \in RepoKinds
    /\ \E S \in SUBSET (1..MaxId) : rows = TableOf(S)
    /\ session = [s \in Sessions |-> EmptySession]
    /\ bc = [s \in Sessions |-> IdleFrame]
    /\ run = [r \in Sessions |-> IdleRun]
    /\ fetched = <<>>
    /\ later = NoLater
    /\ OrchIdle
    /\ WalkIdle
    /\ FetchIdle

RecallNext ==
    \/ StoreCall(1)
    \/ BCRecord(1)
    \/ BCCommit(1)
    \/ LaterCreate
    \/ LaterBatchCreate

RecallSpec == RecallInit /\ [][RecallNext]_vars

\* ------------------------------------------------------- claim vocabulary
Calls == 1..Len(calls)

KindOf(c) == reply[c].kind

\* the classified list the caller received
Returned == IF Len(ret) >= 1 THEN ret[1] ELSE <<>>

\* every result of call c occurs in the returned list
Present(c) ==
    \A j \in 1..Len(reply[c].data) :
        \E p \in 1..Len(Returned) : Returned[p] = reply[c].data[j]

FailedCalls == {c \in Calls : KindOf(c) \in {"exc", "nodata", "baddata"}}

\* concatenation, in order of issue, of the submitted batches 1..c
RECURSIVE ConcatBatches(_)
ConcatBatches(c) == IF c = 0 THEN <<>> ELSE ConcatBatches(c - 1) \o calls[c].batch

\* concatenation, in order of issue, of the results of the successful calls 1..c
RECURSIVE ConcatOk(_)
ConcatOk(c) ==
    IF c = 0 THEN <<>>
    ELSE ConcatOk(c - 1) \o (IF KindOf(c) = "ok" THEN reply[c].data ELSE <<>>)

CeilDiv(k, b) == (k + b - 1) \div b

\* ------------------------------------------------------------------ claims

C2_OneExceptionIsolated ==
    (pc = "done" /\ Cardinality({c \in Calls : KindOf(c) = "exc"}) = 1
                 /\ \A c \in Calls : KindOf(c) \in {"exc", "ok"})
        => \A c \in Calls : KindOf(c) = "ok" => Present(c)

C2_Witness ==
    /\ pc = "done"
    /\ \E c, d, e \in Calls :
          /\ KindOf(c) = "exc" /\ KindOf(d) = "ok" /\ KindOf(e) = "ok"
          /\ calls[d].wave = calls[c].wave /\ d > c
          /\ calls[e].wave # calls[c].wave
          /\ Present(d) /\ Present(e)
    /\ \A c \in Calls : KindOf(c) \in {"exc", "ok"}

\* C3: a malformed response (payload missing or not a list) loses no result of the
\* other successful batches of its wave, those issued after it included.
C3_MalformedIsolated ==
    pc = "done" =>
        \A c, d \in Calls :
            (KindOf(c) \in {"nodata", "baddata"} /\ KindOf(d) = "ok"
                /\ calls[d].wave = calls[c].wave) => Present(d)

C5_IssuanceOrderConcat == pc = "done" => Returned = ConcatOk(Len(calls))

\* C6: ceil(k/b) oracle calls are issued, no batch holds more than b records, and
\* the batches are consecutive slices holding every input record once, in order.
C6_Partition ==
    /\ \A c \in Calls : Len(calls[c].batch) >= 1 /\ Len(calls[c].batch) <= batch_size
    /\ Len(ConcatBatches(Len(calls))) <= total
    /\ ConcatBatches(Len(calls)) = SubSeq(input_data, 1, Len(ConcatBatches(Len(calls))))
    /\ Len(calls) <= CeilDiv(total, batch_size)
    /\ pc = "done" => /\ Len(calls) = CeilDiv(total, batch_size)
                      /\ ConcatBatches(Len(calls)) = input_data

C6_Witness ==
    /\ pc = "done"
    /\ total % batch_size # 0
    /\ Len(calls) > 1
    /\ Len(calls[Len(calls)].batch) < batch_size

\* C7: with no oracle failure the list returned has k records and the identifier
\* of each input record occurs exactly once among them.
C7_EveryIdentifierOnce ==
    (pc = "done" /\ \A c \in Calls : KindOf(c) = "ok") =>
        /\ Len(Returned) = total
        /\ \A n \in 1..total :
              Cardinality({p \in 1..Len(Returned) :
                              input_data[n].id \in Identifiers(Returned[p])}) = 1

\* C8: no call of a later wave is issued before every call of the earlier waves
\* has completed, with success or with failure.
C8_WaveBarrier ==
    \A c, d \in Calls : calls[c].wave < calls[d].wave => Completed(c)

C8_Witness ==
    \E c, d \in Calls :
        /\ calls[c].wave < calls[d].wave
        /\ KindOf(c) \in {"exc", "nodata", "baddata"}
        /\ KindOf(d) = "pending"

\* C9: an oracle call that never responds is ended by its timeout, so that
\* classify_job_batch eventually returns.
C9_HungCallTimesOut == (\E c \in Calls : KindOf(c) = "hung") ~> (pc = "done")

\* C10: every batch is submitted to the oracle at most once in a run.
C10_SubmittedOnce ==
    \A c, d \in Calls : calls[c].batch = calls[d].batch => c = d

C10_Witness == pc = "done" /\ \E c \in Calls : KindOf(c) = "exc"

\* ------------------------------------------------- store claim vocabulary
\* the frame of the batch_create call made through session 1
F1 == bc[1]

Terminal(f) == f.pc \in {"returned", "raised"}

RECURSIVE ConcatIds(_, _)
ConcatIds(log, n) == IF n = 0 THEN <<>> ELSE ConcatIds(log, n - 1) \o log[n].ids

\* rows the table held before the single caller's batch_create began
RowsBefore(f) == SubSeq(rows, 1, Len(rows) - Len(ConcatIds(f.commit_log, Len(f.commit_log))))

RowCount(id) == Cardinality({x \in DOMAIN rows : rows[x] = id})

\* the n-th chunk of the call: objs_in[(n-1)*chunk_size : n*chunk_size]
ChunkNo(f, n) == Slice(f.objs_in, (n - 1) * f.chunk_size, n * f.chunk_size)

\* C15: a record whose identifier already exists in the store is skipped and
\* counted, batch_create raises no error for it, and the store keeps one row.
C15_DuplicateSkipped ==
    (Terminal(F1) /\ \E p \in DOMAIN F1.objs_in : F1.objs_in[p] \in SeqToSet(RowsBefore(F1)))
        => /\ F1.error # "IntegrityError"
           /\ F1.pc = "returned" =>
                 F1.skipped >= Cardinality({p \in DOMAIN F1.objs_in :
                                               F1.objs_in[p] \in SeqToSet(RowsBefore(F1))})
           /\ \A id \in SeqToSet(rows) : RowCount(id) = 1

\* C16: one commit per chunk of at most chunk_size records, in chunk order, and
\* what chunks 1..k-1 inserted stays in the store when chunk k fails.
C16_CommitPerChunk ==
    /\ \A n \in DOMAIN F1.commit_log :
          /\ F1.commit_log[n].chunk = n
          /\ F1.commit_log[n].size >= 1 /\ F1.commit_log[n].size <= F1.chunk_size
          /\ SeqToSet(F1.commit_log[n].ids) \subseteq SeqToSet(ChunkNo(F1, n))
          /\ repo = "zangia" => F1.commit_log[n].ids = ChunkNo(F1, n)
          /\ \A x \in DOMAIN F1.commit_log[n].ids :
                F1.commit_log[n].ids[x] \in SeqToSet(rows)
    /\ F1.pc \in {"chunk", "commit", "raised"} =>
          Len(F1.commit_log) = F1.i \div F1.chunk_size
    /\ F1.pc = "returned" =>
          Len(F1.commit_log) = CeilDiv(Len(F1.objs_in), F1.chunk_size)

C16_Witness ==
    /\ F1.pc = "raised"
    /\ F1.chunk_size = 2
    /\ Len(F1.commit_log) = 1
    /\ Len(F1.commit_log[1].ids) = 2
    /\ \A x \in 1..2 : F1.commit_log[1].ids[x] \in SeqToSet(rows)

\* C17: when the write of chunk j fails the writer goes on to chunks j+1..c and
\* persists their new records.
C17_LaterChunksPersisted ==
    (F1.pc = "raised" /\ F1.error \in {"OperationalError", "IntegrityError"}) =>
        \A p \in DOMAIN F1.objs_in :
            (p > F1.i + F1.chunk_size /\ ~Falsy(F1.objs_in[p]))
                => F1.objs_in[p] \in SeqToSet(rows)

\* C18: a record with an empty identifier is rejected on its own; the valid
\* records of the same call, before and after it, are still persisted.
C18_InvalidKeyIsolated ==
    (Terminal(F1) /\ \E p \in DOMAIN F1.objs_in : Falsy(F1.objs_in[p])
                  /\ F1.error \notin {"OperationalError", "IntegrityError"}) =>
        /\ F1.pc = "returned"
        /\ \A p \in DOMAIN F1.objs_in :
              ~Falsy(F1.objs_in[p]) => F1.objs_in[p] \in SeqToSet(rows)

\* ---------------------------------------------- pipeline claim vocabulary
StoreFailures == {"OperationalError", "IntegrityError"}

Prepared(r) == run[r].pc # "idle"

\* the entries of q at the positions K, in the order of q
RECURSIVE KeepUpTo(_, _, _)
KeepUpTo(q, K, n) ==
    IF n = 0 THEN <<>>
    ELSE KeepUpTo(q, K, n - 1) \o (IF n \in K THEN <<q[n]>> ELSE <<>>)

KeepWhere(q, K) == KeepUpTo(q, K, Len(q))

\* the identifier a fetched entry stands for in the store
IdOf(entry) == IF repo = "lambda" THEN int(entry) ELSE entry

\* positions of the fetched list whose identifier the store did not hold
NotExisting(r) ==
    {p \in DOMAIN run[r].all_jobs : IdOf(run[r].all_jobs[p]) \notin run[r].existing}

FirstOccurrences(q) == {p \in DOMAIN q : \A o \in 1..(p - 1) : q[o] # q[p]}

\* C11: a second run that starts after the first has ended, with no fetch
\* failure and no store failure in either, selects nothing and inserts no row.
C11_SecondRunInsertsNothing ==
    (/\ Prepared(2) /\ run[2].in_sequence
     /\ run[1].fetch_failed = 0 /\ run[2].fetch_failed = 0
     /\ bc[1].error \notin StoreFailures /\ bc[2].error \notin StoreFailures)
        => /\ run[2].selected = <<>>
           /\ run[2].to_create = <<>>
           /\ Len(rows) = run[2].rows_at_start

\* C12 as stated: in both pipelines the selected list is the fetched list without
\* the records whose identifier the store holds, in fetched order.
C12_SelectedIsFetchedMinusExisting ==
    \A r \in Sessions :
        Prepared(r) => run[r].selected = KeepWhere(run[r].all_jobs, NotExisting(r))

\* C12 amended: as stated for Zangia; the Lambda pipeline also removes the
\* records that have no job_id.
C12_SelectedDropsMissingIds ==
    \A r \in Sessions :
        Prepared(r) =>
            run[r].selected =
                KeepWhere(run[r].all_jobs,
                          {p \in NotExisting(r) :
                              repo = "lambda" => run[r].all_jobs[p] # <<>>})

C12_Witness ==
    /\ repo = "lambda"
    /\ Prepared(1)
    /\ \E p, q \in DOMAIN run[1].all_jobs :
          /\ run[1].all_jobs[p] = <<>>
          /\ int(run[1].all_jobs[q]) \in run[1].existing
    /\ run[1].selected # <<>>

\* C13: the Zangia pipeline hands batch_create the first occurrence of every new
\* code, in input order, so pairwise distinct identifiers, and it writes
\* nothing to the store before this list is built.
C13_ZangiaFirstOccurrences ==
    \A r \in Sessions :
        (repo = "zangia" /\ Prepared(r)) =>
            /\ run[r].to_create = KeepWhere(run[r].selected, FirstOccurrences(run[r].selected))
            /\ ~HasDuplicate(run[r].to_create)
            /\ bc[r].pc # "idle" => bc[r].objs_in = run[r].to_create
            /\ bc[r].pc = "idle" => (run[r].to_create = <<>> /\ session[r] = EmptySession)

C13_Witness ==
    /\ repo = "zangia"
    /\ HasDuplicate(run[1].selected)
    /\ Len(run[1].to_create) < Len(run[1].selected)
    /\ bc[1].pc = "returned"
    /\ Len(rows) > run[1].rows_at_start

\* C14: the Lambda pipeline submits at most one detail fetch per job identifier
\* in a run.
C14_LambdaOneFetchPerId ==
    \A r \in Sessions :
        (repo = "lambda" /\ Prepared(r)) =>
            \A p, q \in DOMAIN run[r].selected :
                p < q => int(run[r].selected[p]) # int(run[r].selected[q])

\* C19: whatever the interleaving of two runs on the same store, no identifier
\* ever has two rows.
C19_NoTwoRowsForOneId ==
    \A a, b \in DOMAIN rows : a # b => rows[a] # rows[b]

C19_Witness ==
    /\ repo = "lambda"
    /\ Prepared(1) /\ Prepared(2)
    /\ ~run[2].in_sequence
    /\ run[1].rows_at_start = run[2].rows_at_start
    /\ Len(rows) = run[1].rows_at_start + 1
    /\ \E id \in SeqToSet(run[1].to_create) \cap SeqToSet(run[2].to_create) :
          rows[Len(rows)] = id
    /\ {bc[1].error, bc[2].error} = {"none", "IntegrityError"}

\* ------------------------------------------------ walker claim vocabulary
RECURSIVE PagesUpTo(_, _)
PagesUpTo(source, n) ==
    IF n = 0 THEN <<>> ELSE PagesUpTo(source, n - 1) \o FetchJobs(source, n)

HasEmptyPage == \E p \in 1..MaxPages : walk.source[p] = 0

FirstEmptyPage == CHOOSE p \in 1..MaxPages :
                      walk.source[p] = 0 /\ \A o \in 1..(p - 1) : walk.source[o] # 0

WalkSafe ==
    /\ \A n \in DOMAIN walk.requested : walk.requested[n] = n
    /\ \A n \in DOMAIN walk.requested :
          n < Len(walk.requested) => walk.source[n] # 0
    /\ walk.result_jobs = PagesUpTo(walk.source, Len(walk.requested))
    /\ walk.pc = "fetching" => walk.page = Len(walk.requested) + 1
    /\ walk.pc = "exhausted" <=>
          (walk.requested # <<>> /\ walk.source[Len(walk.requested)] = 0)
    /\ walk.pc = "exhausted" =>
          /\ Len(walk.requested) = FirstEmptyPage
          /\ walk.result_jobs = PagesUpTo(walk.source, FirstEmptyPage - 1)

TimesFetched(p) ==
    Cardinality({n \in DOMAIN api.requested :
                    api.requested[n].page = p /\ api.requested[n].ok /\ n > 1})

Occurrences(item) ==
    Cardinality({x \in DOMAIN api.all_extracted_data :
                    api.all_extracted_data[x].code = item})

AllAnswered == \A n \in DOMAIN api.requested : api.requested[n].ok

ApiDone == api.pc = "returned" /\ api.ret = "list"

LastRequested == api.requested[Len(api.requested)].page

\* C21: the fetch ends at a requested page that had no items, not at the page
\* count of meta.totalPages: every non-empty page that follows non-empty
\* pages is fetched, also past the hinted count.
C21_EndsAtEmptyPage ==
    (ApiDone /\ AllAnswered) =>
        /\ ApiItems(api.source, LastRequested) = <<>>
        /\ \A p \in 1..MaxApiPages :
              (\A o \in 1..p : api.source[o] > 0) => TimesFetched(p) >= 1

\* C22: the raw list holds every item of every fetched page exactly once, so
\* its length is the sum of the sizes of those pages.
C22_EachItemOnce ==
    (ApiDone /\ AllAnswered) =>
        \A p \in 1..api.total_pages :
            \A x \in DOMAIN ApiItems(api.source, p) :
                Occurrences(ApiItems(api.source, p)[x]) = 1

\* --------------------------------------------- detail fetch claim vocabulary
DetailDone == detail.pc = "returned"

Attempts == Len(detail.requests)

First200 == CHOOSE n \in DOMAIN detail.requests :
                /\ Status200(detail.requests[n])
                /\ \A o \in 1..(n - 1) : ~Status200(detail.requests[o])

FirstDecoded == CHOOSE n \in DOMAIN detail.requests :
                    /\ detail.requests[n] = "ok200"
                    /\ \A o \in 1..(n - 1) : detail.requests[o] # "ok200"

\* C24: a detail fetch called with the default max_retries gives up (returns
\* {}) only after its third attempt failed, whether the attempts failed with
\* a network error or with an HTTP error response.
C24_FailureOnlyAfterLastAttempt ==
    (DetailDone /\ detail.max_retries = DefaultMaxRetries /\ detail.ret.kind = "empty"
        /\ \A n \in DOMAIN detail.requests : detail.requests[n] \in {"http_error", "exception"})
            => Attempts = DefaultMaxRetries

\* the parts of C30 that do not depend on which answer is returned
DetailFrame ==
    /\ Attempts <= detail.max_retries
    /\ detail.pc # "raised"
    /\ DetailDone => Attempts >= 1
    /\ DetailDone => detail.ret.kind \in {"body", "empty"}
    /\ (DetailDone /\ \A n \in DOMAIN detail.requests : ~Status200(detail.requests[n]))
          => detail.ret.kind = "empty"
    /\ \A x \in DOMAIN detail.sleeps :
          /\ detail.sleeps[x].after = x
          /\ detail.sleeps[x].after < detail.max_retries
          /\ DetailDone => detail.sleeps[x].after < Attempts
    /\ detail.pc = "sleeping" => Attempts < detail.max_retries

\* C30 as stated: between 1 and max_retries requests, no exception to the
\* caller, the body of the first 200 response is returned, {} when there was
\* none, and a wait only between two attempts.
C30_ReturnsFirst200 ==
    /\ DetailFrame
    /\ (DetailDone /\ \E n \in DOMAIN detail.requests : Status200(detail.requests[n]))
          => detail.ret = [kind |-> "body", of |-> First200]

\* C30 amended: the body returned is that of the first 200 response whose
\* body decodes; a 200 response that does not decode is one more failed
\* attempt, and {} is returned when no attempt gave a decoded 200 response.
C30_ReturnsFirstDecoded200 ==
    /\ DetailFrame
    /\ DetailDone =>
          IF \E n \in DOMAIN detail.requests : detail.requests[n] = "ok200"
          THEN detail.ret = [kind |-> "body", of |-> FirstDecoded]
          ELSE detail.ret = EmptyDict

C30_Witness ==
    /\ DetailDone
    /\ detail.max_retries = DefaultMaxRetries
    /\ detail.requests = <<"bad200", "exception", "ok200">>
    /\ Len(detail.sleeps) = 2
    /\ detail.ret.kind = "body"

\* ----------------------------------------------- thread pool claim vocabulary
FailedTasks == {t \in DOMAIN pool.futures : pool.futures[t].state = "empty"}

FetchedOk == {t \in DOMAIN pool.futures : pool.futures[t].state = "body"}

TraceAt(event) == {n \in DOMAIN pool.trace : pool.trace[n].event = event}

\* C23: never more than 5 detail fetches in progress at once.
C23_AtMostFiveFetching == Cardinality(Running(pool)) <= 5

C23_Witness ==
    /\ Cardinality(Running(pool)) = 5
    /\ Queued(pool) # {}
    /\ Len(pool.jobs_to_fetch) > 5

\* the part of C25 about records: what a failed detail fetch leaves behind
NoRecordForFailed ==
    /\ \A x \in DOMAIN pool.new_jobs : pool.new_jobs[x] # 0
    /\ pool.new_jobs = KeepWhere([t \in DOMAIN pool.futures |-> DetailId(pool.futures[t].url)],
                                  {t \in FetchedOk : t <= pool.idx})
    /\ pool.pc = "saving" =>
          /\ bc[1].objs_in = pool.new_jobs
          /\ \A t \in FailedTasks : DetailId(pool.futures[t].url) \notin SeqToSet(bc[1].objs_in)

C26_ReadBeforeFetch ==
    /\ \A n \in TraceAt("detail_fetch") :
          /\ \E o \in TraceAt("get_all_ids") : o < n
          /\ int(pool.trace[n].job) \notin pool.existing_job_ids
    /\ \A t \in DOMAIN pool.futures : int(pool.futures[t].url) \notin pool.existing_job_ids
    /\ pool.pc # "start" => pool.existing_job_ids = SeqToSet(rows)

C26_Witness ==
    /\ pool.existing_job_ids # {}
    /\ Len(pool.trace) >= 3
    /\ Len(pool.jobs_to_fetch) < Len(fetched)
    /\ pool.pc = "saving"

\* ------------------------------------------------ failed identifiers, next run
SelectedIds(r) == [p \in DOMAIN run[r].selected |-> int(run[r].selected[p])]

Times(q, x) == Cardinality({p \in DOMAIN q : q[p] = x})

\* identifiers with a detail fetch of run r that returned {}: selected more
\* often than handed to batch_create
FailedIds(r) ==
    {x \in SeqToSet(SelectedIds(r)) : Times(SelectedIds(r), x) > Times(run[r].to_create, x)}

\* C27: an identifier whose detail fetch failed in a Lambda run is not in the
\* store after the run, and the next run on the same listing selects it again.
C27_FailedIdSelectedAgain ==
    (repo = "lambda" /\ Prepared(1) /\ RunEnded(1)) =>
        \A x \in FailedIds(1) :
            /\ ~Prepared(2) => x \notin SeqToSet(rows)
            /\ (Prepared(2) /\ run[2].in_sequence) =>
                  /\ x \notin run[2].existing
                  /\ x \in SeqToSet(SelectedIds(2))

\* ----------------------------------------- what Lambda batch_create returns
\* positions of the call's list whose identifier the store did not hold before
\* the call, first occurrence only
NewPositions(f) ==
    {p \in FirstOccurrences(f.objs_in) : f.objs_in[p] \notin SeqToSet(RowsBefore(f))}

\* C28: for records with non-empty identifiers and no store failure,
\* LambdaJobRepository.batch_create returns the records whose identifier the
\* store did not hold before the call, first occurrences in input order, and
\* returned plus skipped is the length of the list.
C28_LambdaReturnsNewRecords ==
    (repo = "lambda" /\ F1.pc = "returned"
     /\ \A p \in DOMAIN F1.objs_in : ~Falsy(F1.objs_in[p])) =>
        /\ F1.all_db_objs = KeepWhere(F1.objs_in, NewPositions(F1))
        /\ Len(F1.all_db_objs) + F1.skipped = Len(F1.objs_in)

C28_Witness ==
    /\ repo = "lambda" /\ F1.pc = "returned"
    /\ \A p \in DOMAIN F1.objs_in : ~Falsy(F1.objs_in[p])
    /\ F1.skipped = 2
    /\ Len(F1.all_db_objs) = 1
    /\ \E p \in DOMAIN F1.objs_in : F1.objs_in[p] \in SeqToSet(RowsBefore(F1))
    /\ \E p \in NewPositions(F1) : \E q \in DOMAIN F1.objs_in : p < q /\ F1.objs_in[q] = F1.objs_in[p]

\* ------------------------------------------ after a ValueError: vocabulary
\* the next commit through the repository was made and succeeded
LaterCommitted ==
    \/ later.pc = "create" /\ later.error = "none"
    \/ later.pc = "batch_create" /\ Len(F1.commit_log) >= 1

\* the next commit through the repository failed with one of errs
LaterCommitFailed(errs) ==
    \/ later.pc = "create" /\ later.error \in errs
    \/ later.pc = "batch_create" /\ F1.pc = "raised" /\ F1.commit_log = <<>>
          /\ F1.error \in errs

\* what the failed call added in its last chunk is pending, not committed
LeftPending ==
    LeftBehind =>
        /\ PendingObjs(session[1]) = F1.db_objs
        /\ repo = "zangia" => F1.db_objs = SubSeq(Chunk(F1), 1, F1.k)
        /\ F1.k < Len(Chunk(F1)) /\ Falsy(Chunk(F1)[F1.k + 1])
        /\ Len(ConcatIds(F1.commit_log, Len(F1.commit_log))) <= F1.i
        /\ rows = RowsBefore(F1) \o ConcatIds(F1.commit_log, Len(F1.commit_log))

\* the rows the left-behind records got from the later commit
LeftPersisted ==
    /\ Len(rows) >= Len(later.rows_before) + Len(later.left)
    /\ SubSeq(rows, 1, Len(later.rows_before) + Len(later.left))
          = later.rows_before \o later.left

\* the later call alone would commit: its records are new to the store
LaterCallValid ==
    /\ ~HasDuplicate(later.objs)
    /\ \A x \in DOMAIN later.objs :
          ~Falsy(later.objs[x]) /\ later.objs[x] \notin SeqToSet(later.rows_before)

\* C29 as stated: the records added before the invalid one stay pending, and
\* the next commit through the same repository persists them (the connection
\* holding, the later call bringing records new to the store).
C29_NextCommitPersists ==
    /\ LeftPending
    /\ (/\ later.left # <<>>
        /\ LaterCallValid
        /\ LaterCommitted \/ LaterCommitFailed({"IntegrityError"}))
          => (LaterCommitted /\ LeftPersisted)

\* C29 amended: they stay pending; the next commit persists them if it
\* succeeds, and if it fails they are discarded with the rollback and no row is
\* written.
C29_NextCommitPersistsOrDiscards ==
    /\ LeftPending
    /\ LaterCommitted => LeftPersisted
    /\ (later.left # <<>> /\ LaterCommitFailed(StoreFailures)) =>
          /\ rows = later.rows_before
          /\ PendingObjs(session[1]) = <<>>

C29_Witness ==
    /\ LaterCommitted
    /\ LaterCallValid
    /\ later.left # <<>>
    /\ \A x \in DOMAIN later.left : later.left[x] \notin SeqToSet(later.rows_before)
    /\ Len(rows) > Len(later.rows_before) + Len(later.left)
====
